---- MODULE Spec2Model ----
(***************************************************************************)
(* Model of map_fields.py, the PDF-to-PDF field mapper: the calibration of *)
(* an affine transform from anchor phrases, the projection of a target     *)
(* field rectangle into source coordinates, the search of candidate source *)
(* pages with a tight and a wide clip window, the assembly of the words    *)
(* found into text, and the run of map_pdf_to_pdf over a document pair.    *)
(*                                                                         *)
(* Coordinates are exact rationals <<numerator, denominator>> (the code    *)
(* uses Python floats; rounding error of the floats is not modelled).      *)
(* Text is a sequence of one-character strings.                            *)
(***************************************************************************)
EXTENDS Integers, Sequences, FiniteSets, TLC

VARIABLES
    srcDoc,         \* source document: sequence of pages, a page is its word list
    tgtDoc,         \* target document: sequence of pages, a page is its widget list
    pc,             \* position of the run inside map_pdf_to_pdf (or of a unit check)
    anchors,        \* first search_for hit of each keyword on both first pages
    transform,      \* result of calculate_transform
    tgt_page_idx,   \* loop variable of the page loop
    widget_idx,     \* position inside tgt_page.widgets() (1-based)
    page_mapped,    \* per-page counter
    total_widgets,  \* named widgets seen so far
    mapped_data,    \* insertion-ordered dict: sequence of [name, text]
    search,         \* what extract_field_text did for the last field
    proj,           \* last projection made by tgt_to_src_rect
    out,            \* lines printed so far
    output_file     \* content written to output_path, or NotWritten

vars == <<srcDoc, tgtDoc, pc, anchors, transform, tgt_page_idx, widget_idx,
          page_mapped, total_widgets, mapped_data, search, proj, out, output_file>>

---------------------------------------------------------------------------
(* Exact rational arithmetic standing for the float arithmetic of the code *)

RECURSIVE GCD(_, _)
GCD(a, b) == IF b = 0 THEN a ELSE GCD(b, a % b)

Abs(i) == IF i < 0 THEN -i ELSE i

\* n/d in lowest terms with a positive denominator (d # 0)
Rat(n, d) ==
    LET g == GCD(Abs(n), Abs(d))
        s == IF d < 0 THEN -1 ELSE 1
    IN  <<(s * n) \div g, (s * d) \div g>>

R(i) == <<i, 1>>
RAdd(a, b) == Rat(a[1] * b[2] + b[1] * a[2], a[2] * b[2])
RSub(a, b) == Rat(a[1] * b[2] - b[1] * a[2], a[2] * b[2])
RMul(a, b) == Rat(a[1] * b[1], a[2] * b[2])
\* a / b for b # 0; a zero divisor is a ZeroDivisionError, decided by the callers
RDiv(a, b) == Rat(a[1] * b[2], a[2] * b[1])
RLe(a, b) == a[1] * b[2] <= b[1] * a[2]
RLt(a, b) == a[1] * b[2] < b[1] * a[2]
RMax(a, b) == IF RLt(a, b) THEN b ELSE a
RMin(a, b) == IF RLt(b, a) THEN b ELSE a
RIsZero(a) == a[1] = 0
RAbs(a) == <<Abs(a[1]), a[2]>>

\* Python's round(x, 0): to the nearest integer, a tie to the even one
RoundHalfEven(a) ==
    LET f == a[1] \div a[2]
        r == a[1] % a[2]
    IN  IF 2 * r < a[2] THEN R(f)
        ELSE IF 2 * r > a[2] THEN R(f + 1)
        ELSE IF f % 2 = 0 THEN R(f) ELSE R(f + 1)

RECURSIVE RSum(_)
RSum(s) == IF s = <<>> THEN R(0) ELSE RAdd(Head(s), RSum(Tail(s)))

\* sum(xs) / len(xs) for a non-empty list
RMean(s) == RDiv(RSum(s), R(Len(s)))

---------------------------------------------------------------------------
(* Rectangles: fitz.Rect as a record of four rationals                     *)

Rect(x0, y0, x1, y1) == [x0 |-> x0, y0 |-> y0, x1 |-> x1, y1 |-> y1]
IRect(x0, y0, x1, y1) == Rect(R(x0), R(y0), R(x1), R(y1))

\* Rect.width and Rect.height: never negative
RectWidth(r) == RMax(R(0), RSub(r.x1, r.x0))
RectHeight(r) == RMax(R(0), RSub(r.y1, r.y0))

RectIsEmpty(r) == RLe(r.x1, r.x0) \/ RLe(r.y1, r.y0)

\* clip & page.rect: an empty clip is returned as it is, otherwise the
\* corners are cut to the page
RectAnd(clip, page_rect) ==
    IF RectIsEmpty(clip) THEN clip
    ELSE Rect(RMax(clip.x0, page_rect.x0), RMax(clip.y0, page_rect.y0),
              RMin(clip.x1, page_rect.x1), RMin(clip.y1, page_rect.y1))

\* page.rect of every source page
PageRect == IRect(0, 0, 612, 792)

---------------------------------------------------------------------------
(* calculate_transform                                                     *)

keywords == <<"Name", "Date of birth", "Identification">>

\* the hits of one keyword: s_r and t_r are the lists search_for returned
Hit(s_r, t_r) == [s_r |-> s_r, t_r |-> t_r]

\* "if s_r and t_r": the keyword was found on both first pages
BothFound(h) == h.s_r # <<>> /\ h.t_r # <<>>

\* src_rects and tgt_rects, zipped: the first hit of each keyword found on both
matched_rects(a) ==
    LET m == SelectSeq(a, BothFound)
    IN  [i \in 1..Len(m) |-> [s |-> Head(m[i].s_r), t |-> Head(m[i].t_r)]]

\* the width filter left out
width_usable_always(p) == TRUE

\* the height filter lets a source height of exactly 1 through
height_usable_from_one(p) == RLe(R(1), RectHeight(p.s))

\* the filters of the two scale comprehensions
width_usable(p) == RLt(R(1), RectWidth(p.s))
height_usable(p) == RLt(R(1), RectHeight(p.s))

\* the quotient lists of the two scale comprehensions, over the filtered pairs
width_ratios(ps) ==
    [i \in 1..Len(ps) |-> RDiv(RectWidth(ps[i].t), RectWidth(ps[i].s))]
height_ratios(ps) ==
    [i \in 1..Len(ps) |-> RDiv(RectHeight(ps[i].t), RectHeight(ps[i].s))]

\* [t.width / s.width for s, t in zip(src_rects, tgt_rects) if s.width > 1]
sx_s(m) == width_ratios(SelectSeq(m, width_usable))
sy_s(m) == height_ratios(SelectSeq(m, height_usable))

\* a division of the two comprehensions has a zero divisor: ZeroDivisionError
zero_width(p) == width_usable(p) /\ RIsZero(RectWidth(p.s))
zero_height(p) == height_usable(p) /\ RIsZero(RectHeight(p.s))
scale_raises(m) == SelectSeq(m, zero_width) # <<>> \/ SelectSeq(m, zero_height) # <<>>

\* sum(xs) / len(xs) if xs else default
mean_or(xs, default) == IF xs # <<>> THEN RMean(xs) ELSE default

\* the x offsets taken without the scale
dx_s_unscaled(m, sx) == [i \in 1..Len(m) |-> RSub(m[i].t.x0, m[i].s.x0)]

dx_s(m, sx) == [i \in 1..Len(m) |-> RSub(m[i].t.x0, RMul(m[i].s.x0, sx))]
dy_s(m, sy) == [i \in 1..Len(m) |-> RSub(m[i].t.y0, RMul(m[i].s.y0, sy))]

Identity == [sx |-> R(1), sy |-> R(1), dx |-> R(0), dy |-> R(0)]

\* the offsets averaged over the anchors that entered the scale of the axis
with_offsets_usable_only(m, sx, sy) ==
    [sx |-> sx, sy |-> sy,
     dx |-> mean_or(dx_s(SelectSeq(m, width_usable), sx), R(0)),
     dy |-> mean_or(dy_s(SelectSeq(m, height_usable), sy), R(0))]

\* the offsets, once the scales are known
with_offsets(m, sx, sy) ==
    [sx |-> sx, sy |-> sy,
     dx |-> mean_or(dx_s(m, sx), R(0)),
     dy |-> mean_or(dy_s(m, sy), R(0))]

\* the transform computed from the matched rectangles m (not empty)
transform_of(m) == with_offsets(m, mean_or(sx_s(m), R(1)), mean_or(sy_s(m), R(1)))

\* the scales are averaged without the test for an empty match list
calibration_no_fallback(m) ==
    IF m = <<>> \/ scale_raises(m)
    THEN [raised |-> TRUE, warned |-> FALSE, t |-> Identity]
    ELSE [raised |-> FALSE, warned |-> FALSE, t |-> transform_of(m)]

\* what calculate_transform does with the matched rectangles m: the value
\* returned, what was printed (warned: the identity warning; otherwise the
\* Transform line) and whether an exception left the function
calibration(m) ==
    IF m = <<>>
    THEN [raised |-> FALSE, warned |-> TRUE, t |-> Identity]
    ELSE IF scale_raises(m)
    THEN [raised |-> TRUE, warned |-> FALSE, t |-> Identity]
    ELSE [raised |-> FALSE, warned |-> FALSE, t |-> transform_of(m)]

calculate_transform(a) == calibration(matched_rects(a))

---------------------------------------------------------------------------
(* tgt_to_src_rect                                                         *)

\* the divisions by sx and sy raise ZeroDivisionError on a zero scale
projection_raises(t) == RIsZero(t.sx) \/ RIsZero(t.sy)

\* the offset taken off after the division instead of before it
tgt_to_src_rect_divides_first(rect, t) ==
    Rect(RSub(RDiv(rect.x0, t.sx), t.dx),
         RSub(RDiv(rect.y0, t.sy), t.dy),
         RSub(RDiv(rect.x1, t.sx), t.dx),
         RSub(RDiv(rect.y1, t.sy), t.dy))

tgt_to_src_rect(rect, t) ==
    Rect(RDiv(RSub(rect.x0, t.dx), t.sx),
         RDiv(RSub(rect.y0, t.dy), t.sy),
         RDiv(RSub(rect.x1, t.dx), t.sx),
         RDiv(RSub(rect.y1, t.dy), t.sy))

---------------------------------------------------------------------------
(* Text: sequences of one-character strings                                *)

IsSpace(c) == c = " "

RECURSIVE LStrip(_)
LStrip(s) == IF s # <<>> /\ IsSpace(Head(s)) THEN LStrip(Tail(s)) ELSE s

RECURSIVE RStrip(_)
RStrip(s) ==
    IF s # <<>> /\ IsSpace(s[Len(s)]) THEN RStrip(SubSeq(s, 1, Len(s) - 1)) ELSE s

\* str.strip()
Strip(s) == RStrip(LStrip(s))

\* " ".join(parts)
RECURSIVE JoinSpace(_)
JoinSpace(parts) ==
    IF parts = <<>> THEN <<>>
    ELSE IF Len(parts) = 1 THEN parts[1]
    ELSE parts[1] \o <<" ">> \o JoinSpace(Tail(parts))

\* every colon at the start is taken off, with the whitespace around them
RECURSIVE sub_all_leading_colons(_)
sub_all_leading_colons(text) ==
    IF text # <<>> /\ Head(text) = ":" THEN sub_all_leading_colons(LStrip(Tail(text)))
    ELSE text

\* re.sub(r'^:\s*', '', text): one colon at the start and the whitespace after it
sub_leading_colon(text) ==
    IF text # <<>> /\ Head(text) = ":" THEN LStrip(Tail(text)) ELSE text

\* the colon is taken off and the whitespace around the rest is left
clean_text_colon_only(text) ==
    IF text # <<>> /\ Head(text) = ":" THEN Tail(text) ELSE text

\* the cleaning of a found text in map_pdf_to_pdf
clean_text(text) == Strip(sub_leading_colon(text))

---------------------------------------------------------------------------
(* get_words_in_area and words_to_text                                     *)

\* a word tuple (x0, y0, x1, y1, "word", ...) of page.get_text("words")
Word(x0, y0, x1, y1, text) ==
    [x0 |-> R(x0), y0 |-> R(y0), x1 |-> R(x1), y1 |-> R(y1), text |-> text]

\* the word's box and the clip overlap
box_overlaps_clip(w, clip) ==
    /\ RLe(w.x0, clip.x1) /\ RLe(clip.x0, w.x1)
    /\ RLe(w.y0, clip.y1) /\ RLe(clip.y0, w.y1)

\* the word's centre lies in the clip, borders included
center_in_clip(w, clip) ==
    LET wcx == RDiv(RAdd(w.x0, w.x1), R(2))
        wcy == RDiv(RAdd(w.y0, w.y1), R(2))
    IN  /\ RLe(clip.x0, wcx) /\ RLe(wcx, clip.x1)
        /\ RLe(clip.y0, wcy) /\ RLe(wcy, clip.y1)

\* no ordering: the words stay as get_text delivered them
sort_key_le_page_order(a, b) == TRUE

\* the sort key (round(w[1], 0), w[0]) of a is not after that of b
sort_key_le(a, b) ==
    LET ya == RoundHalfEven(a.y0)
        yb == RoundHalfEven(b.y0)
    IN  RLt(ya, yb) \/ (ya = yb /\ RLe(a.x0, b.x0))

\* list.sort is stable: w goes after every word whose key is not after its own
RECURSIVE InsertSorted(_, _)
InsertSorted(sorted, w) ==
    IF sorted = <<>> THEN <<w>>
    ELSE IF sort_key_le(Head(sorted), w)
    THEN <<Head(sorted)>> \o InsertSorted(Tail(sorted), w)
    ELSE <<w>> \o sorted

RECURSIVE SortFrom(_, _)
SortFrom(sorted, rest) ==
    IF rest = <<>> THEN sorted
    ELSE SortFrom(InsertSorted(sorted, Head(rest)), Tail(rest))

sort_words(matches) == SortFrom(<<>>, matches)

get_words_in_area(page, clip) ==
    sort_words(SelectSeq(page, LAMBDA w : center_in_clip(w, clip)))

\* the loop of words_to_text over words[1:], returning lines
RECURSIVE group_lines(_, _, _, _)
group_lines(rest, lines, current_line, current_y) ==
    IF rest = <<>> THEN Append(lines, JoinSpace(current_line))
    ELSE LET w == Head(rest)
             wy == RoundHalfEven(w.y0)
         IN  IF RLt(R(5), RAbs(RSub(wy, current_y)))
             THEN group_lines(Tail(rest), Append(lines, JoinSpace(current_line)),
                              <<w.text>>, wy)
             ELSE group_lines(Tail(rest), lines, Append(current_line, w.text),
                              current_y)

\* only the first line is returned
words_to_text_first_line(words) ==
    IF words = <<>> THEN <<>>
    ELSE Head(group_lines(Tail(words), <<>>, <<words[1].text>>,
                          RoundHalfEven(words[1].y0)))

words_to_text(words) ==
    IF words = <<>> THEN <<>>
    ELSE JoinSpace(group_lines(Tail(words), <<>>, <<words[1].text>>,
                               RoundHalfEven(words[1].y0)))

---------------------------------------------------------------------------
(* extract_field_text                                                      *)

\* the loop over the offsets [1, 2, 3, -1] that extends pages_to_try
RECURSIVE add_offsets(_, _, _, _)
add_offsets(pages, offsets, same_page_idx, src_pages) ==
    IF offsets = <<>> THEN pages
    ELSE LET sp == same_page_idx + Head(offsets)
             listed == \E i \in 1..Len(pages) : pages[i] = sp
         IN  add_offsets(IF 0 <= sp /\ sp < src_pages /\ ~listed
                         THEN Append(pages, sp) ELSE pages,
                         Tail(offsets), same_page_idx, src_pages)

\* the offsets with the page before tried first
page_offsets_backward_first == <<-1, 1, 2, 3>>

\* a fifth offset
page_offsets_five == <<1, 2, 3, 4, -1>>

page_offsets == <<1, 2, 3, -1>>

\* the search order: the same page first, then the neighbours
pages_to_try(same_page_idx, src_pages) ==
    add_offsets(<<same_page_idx>>, page_offsets, same_page_idx, src_pages)

\* x * 0.75, x * 0.5 and x * 1.5
ThreeQuarters(x) == RMul(x, Rat(3, 4))
Half(x) == RMul(x, Rat(1, 2))
OneAndHalf(x) == RMul(x, Rat(3, 2))

\* the tight clip, before it is cut to the page
tight_clip(src_rect) ==
    LET field_width == RSub(src_rect.x1, src_rect.x0)
        field_height == RSub(src_rect.y1, src_rect.y0)
    IN  Rect(RSub(src_rect.x0, R(3)),
             RSub(src_rect.y0, R(2)),
             RAdd(src_rect.x1, RMax(R(20), ThreeQuarters(field_width))),
             RAdd(src_rect.y1, RMax(R(2), Half(field_height))))

\* the wide clip with a top margin of 1
wide_clip_short_top(src_rect) ==
    Rect(RSub(src_rect.x0, R(10)),
         RSub(src_rect.y0, R(1)),
         RAdd(src_rect.x1, RMax(R(80), OneAndHalf(RSub(src_rect.x1, src_rect.x0)))),
         RAdd(src_rect.y1, RMax(R(10), RSub(src_rect.y1, src_rect.y0))))

\* the wide clip, before it is cut to the page
wide_clip(src_rect) ==
    LET field_width == RSub(src_rect.x1, src_rect.x0)
        field_height == RSub(src_rect.y1, src_rect.y0)
    IN  Rect(RSub(src_rect.x0, R(10)),
             RSub(src_rect.y0, R(10)),
             RAdd(src_rect.x1, RMax(R(80), OneAndHalf(field_width))),
             RAdd(src_rect.y1, RMax(R(10), field_height)))

\* the record of one window attempt: the words collected and their text,
\* "if words: text = words_to_text(words); if text.strip(): return text.strip()"
attempt_of(src_page_idx, window, words) ==
    [page |-> src_page_idx, window |-> window, words |-> words,
     text |-> IF words # <<>> THEN Strip(words_to_text(words)) ELSE <<>>]

window_attempt(page, src_page_idx, window, clip) ==
    attempt_of(src_page_idx, window, get_words_in_area(page, RectAnd(clip, PageRect)))

found_text(text, loaded, attempts) ==
    [raised |-> FALSE, text |-> text, loaded |-> loaded, attempts |-> attempts]

\* The loop over pages_to_try. src_doc[src_page_idx] raises IndexError for an
\* index that is not a page of the document. attempts lists the windows
\* examined so far, loaded the page indices handed to src_doc[...].
RECURSIVE search_pages(_, _, _, _, _)
RECURSIVE after_tight(_, _, _, _, _, _)
RECURSIVE after_wide(_, _, _, _, _, _)

search_pages(src_doc, src_rect, pages, loaded, attempts) ==
    IF pages = <<>>
    THEN found_text(<<>>, loaded, attempts)
    ELSE IF Head(pages) >= Len(src_doc)
    THEN [raised |-> TRUE, text |-> <<>>, loaded |-> Append(loaded, Head(pages)),
          attempts |-> attempts]
    ELSE after_tight(src_doc, src_rect, pages, Append(loaded, Head(pages)), attempts,
                     window_attempt(src_doc[Head(pages) + 1], Head(pages), "tight",
                                    tight_clip(src_rect)))

\* the tight window's text is not returned: the wide window is always examined
after_tight_falls_through(src_doc, src_rect, pages, loaded, attempts, tight) ==
    after_wide(src_doc, src_rect, pages, loaded, Append(attempts, tight),
               window_attempt(src_doc[Head(pages) + 1], Head(pages), "wide",
                              wide_clip(src_rect)))

\* the search ends with the first page, whatever its wide window holds
after_wide_same_page_only(src_doc, src_rect, pages, loaded, attempts, wide) ==
    found_text(wide.text, loaded, Append(attempts, wide))

\* the tight window was examined: return its text or go on to the wide one
after_tight(src_doc, src_rect, pages, loaded, attempts, tight) ==
    IF tight.text # <<>>
    THEN found_text(tight.text, loaded, Append(attempts, tight))
    ELSE after_wide(src_doc, src_rect, pages, loaded, Append(attempts, tight),
                    window_attempt(src_doc[Head(pages) + 1], Head(pages), "wide",
                                   wide_clip(src_rect)))

\* the wide window was examined: return its text or go on to the next page
after_wide(src_doc, src_rect, pages, loaded, attempts, wide) ==
    IF wide.text # <<>>
    THEN found_text(wide.text, loaded, Append(attempts, wide))
    ELSE search_pages(src_doc, src_rect, Tail(pages), loaded, Append(attempts, wide))

search_result(pages, found) ==
    [raised |-> found.raised, text |-> found.text, pages |-> pages,
     loaded |-> found.loaded, attempts |-> found.attempts]

search_from(src_doc, src_rect, pages) ==
    search_result(pages, search_pages(src_doc, src_rect, pages, <<>>, <<>>))

extract_field_text(src_doc, src_rect, same_page_idx, src_pages) ==
    search_from(src_doc, src_rect, pages_to_try(same_page_idx, src_pages))

---------------------------------------------------------------------------
(* The documents a run is given                                            *)

MaxSrcPages == 2
MaxTgtPages == 2

T_42 == <<"4", "2">>
T_colon == <<":">>
T_unit == <<"m", "g", "/", "d", "L">>
T_John == <<"J", "o", "h", "n">>
T_Smith == <<"S", "m", "i", "t", "h">>

\* word lists of a source page, in the order get_text("words") delivers them
PageBlank == <<>>
PageValue == <<Word(500, 262, 540, 276, T_unit), Word(140, 244, 170, 256, T_42),
               Word(50, 121, 54, 127, T_colon), Word(58, 121, 72, 127, T_42)>>
PageColon == <<Word(100, 244, 104, 256, T_colon)>>
PageJohn == <<Word(90, 120, 120, 130, T_Smith), Word(60, 120, 85, 130, T_John)>>

SrcPageKinds == {PageBlank, PageValue, PageColon, PageJohn}

\* a widget of a target page; field_name "" stands for an empty or missing name
Widget(field_name, rect) == [field_name |-> field_name, rect |-> rect]

WideField == IRect(100, 240, 300, 260)
SmallField == IRect(50, 122, 60, 126)

TgtPageKinds ==
    { <<>>,
      <<Widget("f1", WideField)>>,
      <<Widget("", WideField), Widget("f2", SmallField)>>,
      <<Widget("f2", WideField), Widget("f1", SmallField)>> }

SrcDocs == UNION {[1..n -> SrcPageKinds] : n \in 1..MaxSrcPages}
TgtDocs == UNION {[1..n -> TgtPageKinds] : n \in 1..MaxTgtPages}

NoHit == <<>>
\* no keyword is found on both first pages: each is found on one side at most
AnchorsOneSided ==
    <<Hit(<<IRect(50, 100, 90, 112)>>, NoHit),
      Hit(NoHit, <<IRect(100, 300, 180, 324)>>),
      Hit(NoHit, NoHit)>>
\* "Name" is found on both pages, twice as large on the target
AnchorsName ==
    <<Hit(<<IRect(50, 100, 90, 112), IRect(50, 500, 90, 512)>>,
          <<IRect(100, 200, 180, 224)>>),
      Hit(NoHit, NoHit),
      Hit(<<IRect(50, 160, 120, 172)>>, NoHit)>>

AnchorsNone == <<Hit(NoHit, NoHit), Hit(NoHit, NoHit), Hit(NoHit, NoHit)>>

AnchorCasesRun == {AnchorsNone, AnchorsOneSided, AnchorsName}

---------------------------------------------------------------------------
(* map_pdf_to_pdf                                                          *)

NotWritten == <<"not written">>
NoSearch ==
    [ran |-> FALSE, field_name |-> "", same_page_idx |-> 0, src_pages |-> 0,
     raised |-> FALSE, text |-> <<>>, cleaned |-> <<>>, pages |-> <<>>,
     loaded |-> <<>>, attempts |-> <<>>]
NoProj == [made |-> FALSE, origin |-> IRect(0, 0, 0, 0), rect |-> IRect(0, 0, 0, 0),
           src_rect |-> IRect(0, 0, 0, 0)]

Line(kind, a, b) == [kind |-> kind, a |-> a, b |-> b]

InitRun(src, tgt) ==
    /\ srcDoc = src
    /\ tgtDoc = tgt
    /\ anchors = <<>>
    /\ transform = Identity
    /\ tgt_page_idx = 0
    /\ widget_idx = 1
    /\ page_mapped = 0
    /\ total_widgets = 0
    /\ mapped_data = <<>>
    /\ search = NoSearch
    /\ proj = NoProj
    /\ out = <<>>
    /\ output_file = NotWritten

Init ==
    /\ pc = "open"
    /\ \E src \in SrcDocs, tgt \in TgtDocs : InitRun(src, tgt)

\* dict lookups and mapped_data[name] = text on the insertion-ordered dict
HasKey(d, name) == \E i \in 1..Len(d) : d[i].name = name
KeyIndex(d, name) == CHOOSE i \in 1..Len(d) : d[i].name = name
\* a key that is present keeps its first value
dict_set_keeps_first(d, name, text) ==
    IF \E i \in 1..Len(d) : d[i].name = name THEN d
    ELSE Append(d, [name |-> name, text |-> text])

dict_set(d, name, text) ==
    IF HasKey(d, name)
    THEN [d EXCEPT ![KeyIndex(d, name)] = [name |-> name, text |-> text]]
    ELSE Append(d, [name |-> name, text |-> text])

\* fitz.open of the two paths inside the try block
OpenDocs ==
    /\ pc = "open"
    /\ \E opened \in BOOLEAN :
         IF opened
         THEN /\ pc' = "calibrate"
              /\ out' = out \o <<Line("mapping", 0, 0)>>
         ELSE /\ pc' = "returned"
              /\ out' = out \o <<Line("mapping", 0, 0), Line("error opening", 0, 0)>>
    /\ UNCHANGED <<srcDoc, tgtDoc, anchors, transform, tgt_page_idx, widget_idx,
                   page_mapped, total_widgets, mapped_data, search, proj,
                   output_file>>

\* the call calculate_transform(src_doc[0], tgt_doc[0]) returned c (or raised):
\* the set-up of the page loop, which starts at the page first
SetUpLoop(c, first) ==
    /\ IF c.raised
       THEN /\ pc' = "crashed in calculate_transform"
            /\ UNCHANGED <<transform, out>>
       ELSE /\ transform' = c.t
            /\ out' = out \o <<IF c.warned THEN Line("warning identity", 0, 0)
                               ELSE Line("transform", 0, 0),
                               Line("pages", Len(srcDoc), Len(tgtDoc))>>
            /\ pc' = IF Len(tgtDoc) = 0 THEN "report" ELSE "widgets"
    /\ tgt_page_idx' = first
    /\ widget_idx' = 1
    /\ page_mapped' = 0
    /\ total_widgets' = 0
    /\ mapped_data' = <<>>
    /\ UNCHANGED <<srcDoc, tgtDoc, search, proj, output_file>>

\* range(tgt_pages) starts at page 0
Calibrated(c) == SetUpLoop(c, 0)

\* a: the hits search_for returns for the keywords on the two first pages
CalibrateWith(a) ==
    /\ anchors' = a
    /\ Calibrated(calculate_transform(a))

Calibrate ==
    /\ pc = "calibrate"
    /\ \E a \in AnchorCasesRun : CalibrateWith(a)

CurrentWidgets == tgtDoc[tgt_page_idx + 1]
CurrentWidget == CurrentWidgets[widget_idx]

\* the widget without a name is counted before it is skipped
SkipUnnamed_counted ==
    /\ pc = "widgets"
    /\ widget_idx <= Len(CurrentWidgets)
    /\ CurrentWidget.field_name = ""
    /\ widget_idx' = widget_idx + 1
    /\ total_widgets' = total_widgets + 1
    /\ UNCHANGED <<srcDoc, tgtDoc, pc, anchors, transform, tgt_page_idx,
                   page_mapped, mapped_data, search, proj, out, output_file>>

\* "if not widget.field_name: continue"
SkipUnnamed ==
    /\ pc = "widgets"
    /\ widget_idx <= Len(CurrentWidgets)
    /\ CurrentWidget.field_name = ""
    /\ widget_idx' = widget_idx + 1
    /\ UNCHANGED <<srcDoc, tgtDoc, pc, anchors, transform, tgt_page_idx,
                   page_mapped, total_widgets, mapped_data, search, proj, out,
                   output_file>>

\* "if text: text = re.sub(...).strip(); if text: ..." : the text stored for
\* the field, <<>> when nothing is stored
stored_text(text) == IF text # <<>> THEN clean_text(text) ELSE <<>>

\* a field for which nothing is found has its name taken out of the map
RecordField_clears_on_miss(widget, src_rect, res, text) ==
    /\ proj' = [made |-> TRUE, origin |-> src_rect, rect |-> widget.rect,
                src_rect |-> src_rect]
    /\ search' = [ran |-> TRUE, field_name |-> widget.field_name,
                  same_page_idx |-> tgt_page_idx, src_pages |-> Len(srcDoc),
                  raised |-> res.raised, text |-> res.text, cleaned |-> text,
                  pages |-> res.pages, loaded |-> res.loaded,
                  attempts |-> res.attempts]
    /\ IF res.raised
       THEN /\ pc' = "crashed in extract_field_text"
            /\ UNCHANGED <<widget_idx, mapped_data, page_mapped>>
       ELSE /\ pc' = pc
            /\ widget_idx' = widget_idx + 1
            /\ IF text # <<>>
               THEN /\ mapped_data' = dict_set(mapped_data, widget.field_name, text)
                    /\ page_mapped' = page_mapped + 1
               ELSE /\ mapped_data' = SelectSeq(mapped_data,
                                                LAMBDA e : e.name # widget.field_name)
                    /\ page_mapped' = page_mapped

\* the rest of the loop body once extract_field_text has returned res
RecordField(widget, src_rect, res, text) ==
    /\ proj' = [made |-> TRUE, origin |-> src_rect, rect |-> widget.rect,
                src_rect |-> src_rect]
    /\ search' = [ran |-> TRUE, field_name |-> widget.field_name,
                  same_page_idx |-> tgt_page_idx, src_pages |-> Len(srcDoc),
                  raised |-> res.raised, text |-> res.text, cleaned |-> text,
                  pages |-> res.pages, loaded |-> res.loaded,
                  attempts |-> res.attempts]
    /\ IF res.raised
       THEN /\ pc' = "crashed in extract_field_text"
            /\ UNCHANGED <<widget_idx, mapped_data, page_mapped>>
       ELSE /\ pc' = pc
            /\ widget_idx' = widget_idx + 1
            /\ IF text # <<>>
               THEN /\ mapped_data' = dict_set(mapped_data, widget.field_name, text)
                    /\ page_mapped' = page_mapped + 1
               ELSE UNCHANGED <<mapped_data, page_mapped>>

SearchField(widget, src_rect, res) ==
    RecordField(widget, src_rect, res, IF res.raised THEN <<>> ELSE stored_text(res.text))

ProjectField(widget, src_rect) ==
    SearchField(widget, src_rect,
                extract_field_text(srcDoc, src_rect, tgt_page_idx, Len(srcDoc)))

\* the body of the widget loop for a named widget
MapWidget ==
    /\ pc = "widgets"
    /\ widget_idx <= Len(CurrentWidgets)
    /\ CurrentWidget.field_name # ""
    /\ total_widgets' = total_widgets + 1
    /\ IF projection_raises(transform)
       THEN /\ pc' = "crashed in tgt_to_src_rect"
            /\ UNCHANGED <<widget_idx, page_mapped, mapped_data, search, proj>>
       ELSE ProjectField(CurrentWidget, tgt_to_src_rect(CurrentWidget.rect, transform))
    /\ UNCHANGED <<srcDoc, tgtDoc, anchors, transform, tgt_page_idx, out, output_file>>

\* the print that ends a page, and the step of the page loop
EndPage ==
    /\ pc = "widgets"
    /\ widget_idx > Len(CurrentWidgets)
    /\ out' = Append(out, Line("page mapped", tgt_page_idx + 1, page_mapped))
    /\ IF tgt_page_idx + 1 < Len(tgtDoc)
       THEN /\ tgt_page_idx' = tgt_page_idx + 1
            /\ widget_idx' = 1
            /\ page_mapped' = 0
            /\ pc' = pc
       ELSE /\ pc' = "report"
            /\ UNCHANGED <<tgt_page_idx, widget_idx, page_mapped>>
    /\ UNCHANGED <<srcDoc, tgtDoc, anchors, transform, total_widgets, mapped_data,
                   search, proj, output_file>>

\* the keys are written last first
Report_keys_reversed ==
    /\ pc = "report"
    /\ output_file' = [i \in 1..Len(mapped_data) |-> mapped_data[Len(mapped_data) + 1 - i]]
    /\ out' = out \o <<Line("result", Len(mapped_data), total_widgets),
                        IF total_widgets - Len(mapped_data) # 0
                        THEN Line("missed", total_widgets - Len(mapped_data), 0)
                        ELSE Line("perfect", 0, 0)>>
    /\ pc' = "done"
    /\ UNCHANGED <<srcDoc, tgtDoc, anchors, transform, tgt_page_idx, widget_idx,
                   page_mapped, total_widgets, mapped_data, search, proj>>

\* closing the documents, json.dump and the completion report
Report ==
    /\ pc = "report"
    /\ output_file' = mapped_data
    /\ LET missed == total_widgets - Len(mapped_data)
       IN  out' = out \o <<Line("result", Len(mapped_data), total_widgets),
                           IF missed # 0 THEN Line("missed", missed, 0)
                           ELSE Line("perfect", 0, 0)>>
    /\ pc' = "done"
    /\ UNCHANGED <<srcDoc, tgtDoc, anchors, transform, tgt_page_idx, widget_idx,
                   page_mapped, total_widgets, mapped_data, search, proj>>

\* an exception left map_pdf_to_pdf: nothing is written, no report is printed
Crashed ==
    pc \in {"crashed in calculate_transform", "crashed in tgt_to_src_rect",
            "crashed in extract_field_text"}

\* what the caller of map_pdf_to_pdf gets: an exception, or the return value,
\* which is None after "return" in the except clause and None at the end
CallerGets ==
    IF Crashed THEN "exception"
    ELSE IF pc \in {"returned", "done"} THEN "None"
    ELSE "nothing yet"

Next == OpenDocs \/ Calibrate \/ SkipUnnamed \/ MapWidget \/ EndPage \/ Report

Spec == Init /\ [][Next]_vars

---------------------------------------------------------------------------
(* Runs on long source documents: every page blank, or every page blank    *)
(* but the last, so that a search goes through all its candidate pages;    *)
(* the run is a sequential program and keeps taking steps until it ends    *)

MaxLongPages == 6

LongSrcDocs ==
    UNION {{[i \in 1..n |-> PageBlank],
            [i \in 1..n |-> IF i = n THEN PageValue ELSE PageBlank]} : n \in 1..MaxLongPages}

InitLong ==
    /\ pc = "open"
    /\ \E src \in LongSrcDocs, tgt \in TgtDocs : InitRun(src, tgt)

SpecLong == InitLong /\ [][Next]_vars /\ WF_vars(Next)

---------------------------------------------------------------------------
(* The page loop taken in any order: the body of the loop is that of       *)
(* map_pdf_to_pdf, the pages of the target are visited one after another   *)
(* in an order chosen freely (a shard per page, run one at a time)         *)

\* the target page indices whose end-of-page line has been printed
PagesDone(lines) ==
    {lines[i].a - 1 : i \in {j \in 1..Len(lines) : lines[j].kind = "page mapped"}}

\* the first pages have no keyword, or "Name" on both
AnchorCasesAnyOrder == {AnchorsNone, AnchorsName}

CalibrateAnyOrder ==
    /\ pc = "calibrate"
    /\ \E a \in AnchorCasesAnyOrder, first \in 0..(Len(tgtDoc) - 1) :
         /\ anchors' = a
         /\ SetUpLoop(calculate_transform(a), first)

\* the run ends after the first page visited
EndPageAnyOrder_first_shard_only ==
    /\ pc = "widgets"
    /\ widget_idx > Len(CurrentWidgets)
    /\ out' = Append(out, Line("page mapped", tgt_page_idx + 1, page_mapped))
    /\ pc' = "report"
    /\ UNCHANGED <<srcDoc, tgtDoc, anchors, transform, total_widgets, mapped_data,
                   search, proj, output_file, tgt_page_idx, widget_idx, page_mapped>>

\* the print that ends a page; any page not yet visited comes next
EndPageAnyOrder ==
    /\ pc = "widgets"
    /\ widget_idx > Len(CurrentWidgets)
    /\ out' = Append(out, Line("page mapped", tgt_page_idx + 1, page_mapped))
    /\ IF PagesDone(out') # 0..(Len(tgtDoc) - 1)
       THEN /\ tgt_page_idx' \in (0..(Len(tgtDoc) - 1)) \ PagesDone(out')
            /\ widget_idx' = 1
            /\ page_mapped' = 0
            /\ pc' = pc
       ELSE /\ pc' = "report"
            /\ UNCHANGED <<tgt_page_idx, widget_idx, page_mapped>>
    /\ UNCHANGED <<srcDoc, tgtDoc, anchors, transform, total_widgets, mapped_data,
                   search, proj, output_file>>

\* The result map of the page loop in document order, as a function of the
\* documents and the transform (for a run that no exception ends)
SeqStore(d, name, text) == IF text # <<>> THEN dict_set(d, name, text) ELSE d

SeqFound(d, name, res) == SeqStore(d, name, stored_text(res.text))

SeqWidget(d, widget, k) ==
    IF widget.field_name = "" THEN d
    ELSE SeqFound(d, widget.field_name,
                  extract_field_text(srcDoc, tgt_to_src_rect(widget.rect, transform),
                                     k, Len(srcDoc)))

RECURSIVE SeqPage(_, _, _)
SeqPage(d, widgets, k) ==
    IF widgets = <<>> THEN d
    ELSE SeqPage(SeqWidget(d, Head(widgets), k), Tail(widgets), k)

RECURSIVE SeqPages(_, _)
SeqPages(d, k) ==
    IF k >= Len(tgtDoc) THEN d
    ELSE SeqPages(SeqPage(d, tgtDoc[k + 1], k), k + 1)

SequentialResult == SeqPages(<<>>, 0)

NextAnyOrder ==
    OpenDocs \/ CalibrateAnyOrder \/ SkipUnnamed \/ MapWidget \/ EndPageAnyOrder \/ Report

SpecAnyOrder == Init /\ [][NextAnyOrder]_vars

---------------------------------------------------------------------------
(* Checks of single functions on wider inputs: the page order of           *)
(* extract_field_text, calculate_transform on every combination of hits,   *)
(* and tgt_to_src_rect after it                                            *)

MaxTgtIndex == 6
MaxPageCount == 7

\* the hits search_for can return for the i-th keyword on the source page:
\* none, a usual rectangle, one of width 1, one of height 1, an empty one
SrcHits(i) ==
    { NoHit,
      <<IRect(50, 100 + 30 * i, 90, 112 + 30 * i)>>,
      <<IRect(50, 100 + 30 * i, 51, 112 + 30 * i)>>,
      <<IRect(50, 100 + 30 * i, 90, 101 + 30 * i)>>,
      <<IRect(50, 100 + 30 * i, 50, 100 + 30 * i)>> }

\* and on the target page: none, twice as large, same size but moved, of width 0
TgtHits(i) ==
    { NoHit,
      <<IRect(100, 200 + 60 * i, 180, 224 + 60 * i)>>,
      <<IRect(60, 110 + 30 * i, 100, 122 + 30 * i)>>,
      <<IRect(100, 200 + 60 * i, 100, 224 + 60 * i)>> }

AnchorCasesAll ==
    { <<Hit(s1, t1), Hit(s2, t2), Hit(s3, t3)>> :
        s1 \in SrcHits(0), t1 \in TgtHits(0),
        s2 \in SrcHits(1), t2 \in TgtHits(1),
        s3 \in SrcHits(2), t3 \in TgtHits(2) }

ProbeRects == {IRect(50, 120, 150, 130), IRect(10, 20, 13, 27)}

\* the forward mapping of a transform: target = source * scale + offset
Forward(r, t) ==
    Rect(RAdd(RMul(r.x0, t.sx), t.dx), RAdd(RMul(r.y0, t.sy), t.dy),
         RAdd(RMul(r.x1, t.sx), t.dx), RAdd(RMul(r.y1, t.sy), t.dy))

InitUnits ==
    /\ pc = "calibrate"
    /\ InitRun(<<PageJohn>>, <<<<Widget("f1", WideField)>>>>)

\* the search order of extract_field_text for a target page k and n source pages
UnitResolve ==
    /\ pc = "calibrate"
    /\ \E k \in 0..MaxTgtIndex, n \in 1..MaxPageCount :
         search' = [NoSearch EXCEPT !.ran = TRUE, !.same_page_idx = k,
                                    !.src_pages = n, !.pages = pages_to_try(k, n)]
    /\ pc' = "resolved"
    /\ UNCHANGED <<srcDoc, tgtDoc, anchors, transform, tgt_page_idx, widget_idx,
                   page_mapped, total_widgets, mapped_data, proj, out, output_file>>

\* calculate_transform on any combination of hits
UnitCalibrate ==
    /\ pc = "calibrate"
    /\ \E a \in AnchorCasesAll : CalibrateWith(a)

\* tgt_to_src_rect on the forward image of a source rectangle
UnitProject ==
    /\ pc = "widgets"
    /\ \E r \in ProbeRects :
         IF projection_raises(transform)
         THEN /\ pc' = "crashed in tgt_to_src_rect"
              /\ proj' = proj
         ELSE /\ pc' = "projected"
              /\ proj' = [made |-> TRUE, origin |-> r, rect |-> Forward(r, transform),
                          src_rect |-> tgt_to_src_rect(Forward(r, transform), transform)]
    /\ UNCHANGED <<srcDoc, tgtDoc, anchors, transform, tgt_page_idx, widget_idx,
                   page_mapped, total_widgets, mapped_data, search, out, output_file>>

\* the texts extract_field_text can return: up to MaxWords words of a page,
\* joined by single spaces
MaxWords == 3
T_colon42 == <<":", "4", "2">>
T_2colons == <<":", ":">>
T_42colon == <<"4", "2", ":">>
WindowWords == {T_colon, T_42, T_unit, T_colon42, T_2colons, T_42colon}
WindowTexts ==
    {JoinSpace(ws) : ws \in UNION {[1..n -> WindowWords] : n \in 1..MaxWords}}

\* the cleanup of a returned text in map_pdf_to_pdf
UnitClean ==
    /\ pc = "calibrate"
    /\ \E text \in WindowTexts :
         search' = [NoSearch EXCEPT !.text = text, !.cleaned = stored_text(text)]
    /\ pc' = "cleaned"
    /\ UNCHANGED <<srcDoc, tgtDoc, anchors, transform, tgt_page_idx, widget_idx,
                   page_mapped, total_widgets, mapped_data, proj, out, output_file>>

\* words a page can deliver around the field (50,120,150,130): "John" and
\* "Smith" on one row, "John" one unit lower, a word on the next row, a word
\* whose box reaches into the tight window while its centre is outside, a word
\* whose centre is on the right border of the tight window, and a word in the
\* top left corner of the page
W_John == Word(60, 120, 85, 130, T_John)
W_John_lower == Word(60, 121, 85, 131, T_John)
W_Smith == Word(90, 120, 120, 130, T_Smith)
W_next_row == Word(60, 132, 80, 140, T_42)
W_reaching_in == Word(210, 120, 250, 130, T_unit)
W_on_border == Word(215, 120, 235, 130, T_colon)
W_corner == Word(0, 0, 8, 6, T_42)
PageWords ==
    {W_John, W_John_lower, W_Smith, W_next_row, W_reaching_in, W_on_border, W_corner}

\* the word lists of a page, in any order of delivery
UnitPages == UNION {[1..n -> PageWords] : n \in 1..MaxWords}

\* projected rectangles: inside the page, at its top left corner, beyond its
\* bottom right corner, and of no extent
UnitRects ==
    {IRect(50, 120, 150, 130), IRect(2, 1, 30, 9), IRect(600, 780, 640, 800),
     IRect(100, 125, 100, 125)}

\* the two windows of a field on one page, and words_to_text on the words as
\* the page delivers them
WindowsOf(page, src_rect) ==
    [NoSearch EXCEPT
       !.text = words_to_text(page),
       !.attempts = <<window_attempt(page, 0, "tight", tight_clip(src_rect)),
                      window_attempt(page, 0, "wide", wide_clip(src_rect))>>]

UnitWindows ==
    /\ pc = "calibrate"
    /\ \E page \in UnitPages, r \in UnitRects :
         /\ srcDoc' = <<page>>
         /\ proj' = [made |-> TRUE, origin |-> r, rect |-> r, src_rect |-> r]
         /\ search' = WindowsOf(page, r)
    /\ pc' = "windows"
    /\ UNCHANGED <<tgtDoc, anchors, transform, tgt_page_idx, widget_idx,
                   page_mapped, total_widgets, mapped_data, out, output_file>>

NextUnits == UnitResolve \/ UnitCalibrate \/ UnitProject \/ UnitClean \/ UnitWindows

SpecUnits == InitUnits /\ [][NextUnits]_vars

---------------------------------------------------------------------------
(* Claims                                                                  *)

RECURSIVE NamedOnPages(_)
NamedOnPages(pages) ==
    IF pages = <<>> THEN 0
    ELSE Len(SelectSeq(Head(pages), LAMBDA w : w.field_name # ""))
         + NamedOnPages(Tail(pages))

\* C1: whatever the page counts of the two documents, the run is never
\* aborted while it maps the fields: it processes every named widget of
\* every target page and ends with the completion report.
C1_EveryFieldProcessedRunCompletes ==
    /\ ~Crashed
    /\ pc = "done" =>
         /\ total_widgets = NamedOnPages(tgtDoc)
         /\ out[Len(out) - 1].kind = "result"

\* C2: every page index the search of a field puts in its candidate list is
\* a page of the source document: 0 <= index < src_pages, the target page
\* index itself included.
C2_CandidatePagesAreSourcePages ==
    search.ran =>
        \A i \in 1..Len(search.pages) :
            0 <= search.pages[i] /\ search.pages[i] < search.src_pages

InSource(p, n) == 0 <= p /\ p < n
NoPageTwice(pages) ==
    \A i, j \in 1..Len(pages) : i # j => pages[i] # pages[j]

\* C3: when the target page index k is a page of the source, the candidate
\* pages are k, then those of k+1, k+2, k+3, k-1 (in this order) that are
\* pages of the source; k comes first and no page appears twice.
C3_SamePageFirstThenOffsets ==
    (search.ran /\ search.same_page_idx < search.src_pages) =>
        LET k == search.same_page_idx
            n == search.src_pages
        IN  /\ search.pages =
                 <<k>> \o SelectSeq(<<k + 1, k + 2, k + 3, k - 1>>,
                                    LAMBDA p : InSource(p, n))
            /\ NoPageTwice(search.pages)

\* C3 witness: all four offsets are pages of the source
C3_Witness_AllOffsets == search.ran /\ search.pages = <<1, 2, 3, 4, 0>>

---------------------------------------------------------------------------
(* The windows of the last projected field on a source page, read from the *)
(* documents                                                               *)

TightWords(p) ==
    get_words_in_area(srcDoc[p + 1], RectAnd(tight_clip(proj.src_rect), PageRect))
WideWords(p) ==
    get_words_in_area(srcDoc[p + 1], RectAnd(wide_clip(proj.src_rect), PageRect))
AssembledText(words) == Strip(words_to_text(words))

ValueOf(d, name) == d[KeyIndex(d, name)].text
Recorded(name, text) == HasKey(mapped_data, name) /\ ValueOf(mapped_data, name) = text

\* the field of target page k finds nothing on source page k but has words
\* in a window on source page k+1
PageShift(k) ==
    /\ k + 1 < Len(srcDoc)
    /\ TightWords(k) = <<>> /\ WideWords(k) = <<>>
    /\ (TightWords(k + 1) # <<>> \/ WideWords(k + 1) # <<>>)

\* the text assembled from page k+1: of its tight window if that holds words,
\* else of its wide window
ShiftedText(k) ==
    IF TightWords(k + 1) # <<>> THEN AssembledText(TightWords(k + 1))
    ELSE AssembledText(WideWords(k + 1))

\* C4 as stated: page-shift recovery, the text assembled from page k+1 is
\* recorded as the value of the field.
C4_ShiftedTextRecorded ==
    (search.ran /\ PageShift(search.same_page_idx)) =>
        Recorded(search.field_name, ShiftedText(search.same_page_idx))

RecordedCleaned(name, text) ==
    IF text # <<>>
    THEN search.cleaned = text /\ Recorded(name, text)
    ELSE search.cleaned = <<>>

\* C4 amended: page-shift recovery, the text assembled from page k+1 is
\* recorded as the value of the field after the result cleanup (one leading
\* colon and the whitespace around it removed); when the cleanup leaves
\* nothing, the field records no value.
C4_ShiftedTextRecordedCleaned ==
    (search.ran /\ PageShift(search.same_page_idx)) =>
        RecordedCleaned(search.field_name,
                        clean_text(ShiftedText(search.same_page_idx)))

\* C4 witness: a field that found nothing on its own page has the text of the
\* next page as its value
C4_Witness_Recovered ==
    /\ search.ran /\ PageShift(search.same_page_idx)
    /\ search.cleaned = T_42
    /\ Recorded(search.field_name, T_42)

\* the i-th attempt in the order page k tight, page k wide, page k+1 tight, ...
AttemptPage(i) == search.pages[(i + 1) \div 2]
AttemptWindow(i) == IF i % 2 = 1 THEN "tight" ELSE "wide"
AttemptText(i) ==
    AssembledText(IF i % 2 = 1 THEN TightWords(AttemptPage(i))
                  ELSE WideWords(AttemptPage(i)))

ExaminedInOrder(j) ==
    /\ Len(search.attempts) = j
    /\ \A i \in 1..j : /\ search.attempts[i].page = AttemptPage(i)
                       /\ search.attempts[i].window = AttemptWindow(i)

FirstYielding(j) ==
    /\ AttemptText(j) # <<>>
    /\ \A i \in 1..(j - 1) : AttemptText(i) = <<>>

\* C5: the text returned is that of the first attempt, in the order page k
\* tight, page k wide, page k+1 tight, ..., that yields non-empty text, and
\* the attempts examined are exactly those up to it; when no attempt yields
\* text all are examined and the empty text is returned.
C5_FirstYieldingAttemptWins ==
    (search.ran /\ ~search.raised) =>
        LET all == 1..(2 * Len(search.pages))
        IN  IF \E j \in all : FirstYielding(j)
            THEN \A j \in all :
                    FirstYielding(j) =>
                        search.text = AttemptText(j) /\ ExaminedInOrder(j)
            ELSE search.text = <<>> /\ ExaminedInOrder(2 * Len(search.pages))

\* C5 witness: the tight window of the second page yields the text, and its
\* wide window, which holds more, is not examined
C5_Witness_StopsAtTight ==
    /\ search.ran /\ ~search.raised
    /\ Len(search.attempts) = 3
    /\ search.text = T_42
    /\ AttemptText(4) = T_42 \o <<" ">> \o T_unit

\* no window of the field holds a word on any candidate page of the source
NoWordOnAnyCandidate ==
    \A i \in 1..Len(search.pages) :
        search.pages[i] < Len(srcDoc) =>
            TightWords(search.pages[i]) = <<>> /\ WideWords(search.pages[i]) = <<>>

\* C6: a named field whose windows hold no word on any candidate page yields
\* the empty string without raising, records no value, and is counted among
\* the missed fields of the report.
C6_TotalMissIsEmptyNotAnError ==
    (search.ran /\ NoWordOnAnyCandidate) =>
        /\ ~search.raised
        /\ search.text = <<>>
        /\ search.cleaned = <<>>
        /\ pc = "done" => total_widgets - Len(mapped_data) >= 1

\* C7: for a transform with sx > 0 and sy > 0, projecting the forward image
\* (source * scale + offset) of a source rectangle back with tgt_to_src_rect
\* returns the source rectangle, corner by corner.
C7_ProjectionInvertsForward ==
    (pc = "projected" /\ RLt(R(0), transform.sx) /\ RLt(R(0), transform.sy)) =>
        /\ proj.rect = Forward(proj.origin, transform)
        /\ proj.src_rect = proj.origin

\* C7 witness: a projection under a transform that scales and moves
C7_Witness_ScaledAndMoved ==
    /\ pc = "projected"
    /\ transform.sx = Rat(3, 2) /\ transform.dx # R(0)
    /\ proj.rect # proj.origin /\ proj.src_rect = proj.origin

\* no keyword was found on both first pages
NothingMatched(a) == \A i \in 1..Len(a) : a[i].s_r = <<>> \/ a[i].t_r = <<>>

\* C8: when no keyword is found on both first pages, calculate_transform
\* returns sx = 1, sy = 1, dx = 0, dy = 0 and prints the warning, and the run
\* goes on with that transform (the page counts are printed, fields are
\* projected unchanged).
C8_IdentityFallback ==
    (anchors # <<>> /\ NothingMatched(anchors)) =>
        /\ transform = [sx |-> R(1), sy |-> R(1), dx |-> R(0), dy |-> R(0)]
        /\ Len(out) >= 3
        /\ out[2].kind = "warning identity"
        /\ out[3].kind = "pages"
        /\ pc # "crashed in calculate_transform"
        /\ proj.made => proj.src_rect = proj.rect

\* C8 witness: a run calibrated on keywords found on one side only has mapped
\* a field and finished
C8_Witness_RunWentOn ==
    /\ pc = "done"
    /\ anchors = AnchorsOneSided
    /\ out[2].kind = "warning identity"
    /\ mapped_data # <<>>

AllWidthsAtMostOne(m) == \A i \in 1..Len(m) : RLe(RectWidth(m[i].s), R(1))
AllHeightsAtMostOne(m) == \A i \in 1..Len(m) : RLe(RectHeight(m[i].s), R(1))
OriginGapsX(m) == [i \in 1..Len(m) |-> RSub(m[i].t.x0, m[i].s.x0)]
OriginGapsY(m) == [i \in 1..Len(m) |-> RSub(m[i].t.y0, m[i].s.y0)]

NoScaleStillOffsets(m) ==
    /\ (m # <<>> /\ AllWidthsAtMostOne(m)) =>
          transform.sx = R(1) /\ transform.dx = RMean(OriginGapsX(m))
    /\ (m # <<>> /\ AllHeightsAtMostOne(m)) =>
          transform.sy = R(1) /\ transform.dy = RMean(OriginGapsY(m))

\* C9: calculate_transform never raises, whatever the hits and their sizes;
\* when every matched source rectangle has width <= 1 (height <= 1) the scale
\* of that axis is 1 and the offset is still the mean of the origin gaps.
C9_CalibrationNeverRaises ==
    anchors # <<>> =>
        /\ pc # "crashed in calculate_transform"
        /\ NoScaleStillOffsets(matched_rects(anchors))

\* C9 witness: the only matched keyword has a source rectangle of width 0,
\* and the transform has scale 1 and an offset
C9_Witness_DegenerateSource ==
    /\ pc = "widgets"
    /\ Len(matched_rects(anchors)) = 1
    /\ RIsZero(RectWidth(matched_rects(anchors)[1].s))
    /\ transform.sx = R(1) /\ transform.dx # R(0)

\* C10: the scales returned by calculate_transform are strictly positive for
\* every set of matched rectangles, so tgt_to_src_rect never divides by zero.
C10_ScalesStrictlyPositive ==
    anchors # <<>> =>
        /\ RLt(R(0), transform.sx) /\ RLt(R(0), transform.sy)
        /\ pc # "crashed in tgt_to_src_rect"

---------------------------------------------------------------------------
(* The scale averages, written out anchor by anchor                        *)

WideEnough(p) == RLt(R(1), RSub(p.s.x1, p.s.x0))
TallEnough(p) == RLt(R(1), RSub(p.s.y1, p.s.y0))
WidthRatio(p) == RDiv(RSub(p.t.x1, p.t.x0), RSub(p.s.x1, p.s.x0))
HeightRatio(p) == RDiv(RSub(p.t.y1, p.t.y0), RSub(p.s.y1, p.s.y0))

\* the sum of the width (height) ratios of the first i matched anchors that
\* are wide (tall) enough
RECURSIVE WidthRatioSum(_, _)
WidthRatioSum(m, i) ==
    IF i = 0 THEN R(0)
    ELSE IF WideEnough(m[i]) THEN RAdd(WidthRatioSum(m, i - 1), WidthRatio(m[i]))
    ELSE WidthRatioSum(m, i - 1)

RECURSIVE HeightRatioSum(_, _)
HeightRatioSum(m, i) ==
    IF i = 0 THEN R(0)
    ELSE IF TallEnough(m[i]) THEN RAdd(HeightRatioSum(m, i - 1), HeightRatio(m[i]))
    ELSE HeightRatioSum(m, i - 1)

WideCount(m) == Cardinality({i \in 1..Len(m) : WideEnough(m[i])})
TallCount(m) == Cardinality({i \in 1..Len(m) : TallEnough(m[i])})

ScalesAreMeansOverUsable(m) ==
    /\ WideCount(m) > 0 =>
          transform.sx = RDiv(WidthRatioSum(m, Len(m)), R(WideCount(m)))
    /\ TallCount(m) > 0 =>
          transform.sy = RDiv(HeightRatioSum(m, Len(m)), R(TallCount(m)))

\* C11: sx is the mean of target width / source width over exactly the
\* matched anchors whose source width is > 1, sy the mean of target height /
\* source height over exactly those whose source height is > 1; the two
\* selections are independent, and an anchor of source width (height) <= 1
\* does not enter the average of that axis.
C11_ScalesAverageUsableAnchorsOnly ==
    (anchors # <<>> /\ pc # "crashed in calculate_transform") =>
        ScalesAreMeansOverUsable(matched_rects(anchors))

\* C11 witness: of two matched anchors the second has source width 1 and
\* source height 12: it is left out of sx (2, not the mean of 2 and 40) and
\* enters sy (the mean of 2 and 1)
C11_Witness_OneAxisExcluded ==
    /\ pc = "widgets"
    /\ Len(matched_rects(anchors)) = 2
    /\ ~WideEnough(matched_rects(anchors)[2]) /\ TallEnough(matched_rects(anchors)[2])
    /\ WidthRatio(matched_rects(anchors)[2]) = R(40)
    /\ transform.sx = R(2) /\ transform.sy = Rat(3, 2)

---------------------------------------------------------------------------
(* The worked example: one anchor, one field, two words                    *)

T_John_Smith == T_John \o <<" ">> \o T_Smith

\* the words of source page 1 whose centre lies in the expanded window of the
\* field are "John" and, on the same row to its right, "Smith"
OnlyJohnThenSmith ==
    LET ws == SelectSeq(srcDoc[1],
                        LAMBDA w : center_in_clip(w, RectAnd(wide_clip(proj.src_rect),
                                                             PageRect)))
    IN  /\ Len(ws) = 2
        /\ \E i, j \in 1..2 :
              /\ ws[i].text = T_John /\ ws[j].text = T_Smith
              /\ ws[i].y0 = ws[j].y0 /\ RLt(ws[i].x0, ws[j].x0)

ExampleAnchor ==
    /\ Len(matched_rects(anchors)) = 1
    /\ anchors[1].s_r # <<>> /\ anchors[1].t_r # <<>>
    /\ matched_rects(anchors)[1].s = IRect(50, 100, 90, 112)
    /\ matched_rects(anchors)[1].t = IRect(100, 200, 180, 224)

---------------------------------------------------------------------------
(* Result cleanup                                                          *)

Spaces(n) == [i \in 1..n |-> " "]
NoSpaceAtEnds(t) == t = <<>> \/ (t[1] # " " /\ t[Len(t)] # " ")

\* what is cut from the text is one colon at its start and the spaces that
\* follow it; the rest is kept character by character
OneLeadingColonCut(text, cleaned) ==
    IF text # <<>> /\ text[1] = ":"
    THEN /\ \E n \in 0..(Len(text) - 1) : text = <<":">> \o Spaces(n) \o cleaned
         /\ NoSpaceAtEnds(cleaned)
    ELSE cleaned = text

\* C13: the cleanup of a window text removes one leading colon with the
\* whitespace after it and the whitespace at both ends, and nothing else: a
\* second colon at the start and colons further on are kept.
C13_CleanupCutsOneLeadingColon ==
    pc = "cleaned" =>
        /\ NoSpaceAtEnds(search.text) => OneLeadingColonCut(search.text, search.cleaned)
        /\ search.text = <<":", " ">> \o T_42 \o <<" ">> \o T_unit =>
              search.cleaned = T_42 \o <<" ">> \o T_unit

\* C13 witness: ": :42 42:" is cleaned to ":42 42:", the second leading colon
\* and the colon at the end are kept
C13_Witness_SecondColonKept ==
    /\ pc = "cleaned"
    /\ search.text = JoinSpace(<<T_colon, T_colon42, T_42colon>>)
    /\ search.cleaned = JoinSpace(<<T_colon42, T_42colon>>)

---------------------------------------------------------------------------
(* Widgets without a name                                                  *)

AtUnnamedWidget ==
    /\ pc = "widgets"
    /\ widget_idx <= Len(CurrentWidgets)
    /\ CurrentWidget.field_name = ""

\* the loop passes to the next widget and nothing else changes: no
\* projection, no search, no counter, no key, no line printed
PassedOverUntouched ==
    /\ widget_idx' = widget_idx + 1
    /\ UNCHANGED <<total_widgets, mapped_data, page_mapped, search, proj, out,
                   output_file, tgt_page_idx, pc>>

\* C14: a widget whose name is empty or missing never becomes a key of the
\* result map, starts no search and changes neither the total counter nor
\* the mapped and missed counts.
C14_UnnamedWidgetLeavesNoTrace ==
    /\ [](~HasKey(mapped_data, "") /\ (search.ran => search.field_name # ""))
    /\ [][AtUnnamedWidget => PassedOverUntouched]_vars

\* C14 witness: the unnamed first widget of the page has been passed, nothing
\* is counted and nothing was searched
C14_Witness_Skipped ==
    /\ pc = "widgets" /\ tgt_page_idx = 0 /\ widget_idx = 2
    /\ CurrentWidgets[1].field_name = ""
    /\ total_widgets = 0 /\ mapped_data = <<>> /\ ~search.ran /\ ~proj.made

---------------------------------------------------------------------------
(* The counts of the completion report                                     *)

\* the number of named widgets for which a value was recorded: the sum of the
\* per-page counts printed at the end of each page
RECURSIVE RecordedFields(_)
RecordedFields(lines) ==
    IF lines = <<>> THEN 0
    ELSE (IF Head(lines).kind = "page mapped" THEN Head(lines).b ELSE 0)
         + RecordedFields(Tail(lines))

ReportedMapped == out[Len(out) - 1].a
ReportedMissed == IF out[Len(out)].kind = "missed" THEN out[Len(out)].a ELSE 0

\* C15: at the end of every run the reported mapped count is the number of
\* named widgets for which a value was recorded and the reported missed count
\* is the number of named widgets for which none was, also when a field name
\* occurs on more than one page.
C15_ReportCountsFields ==
    pc = "done" =>
        /\ ReportedMapped = RecordedFields(out)
        /\ ReportedMissed = NamedOnPages(tgtDoc) - RecordedFields(out)

---------------------------------------------------------------------------
(* A field name that occurs again                                          *)

\* the step maps a named widget whose name is a key already, and the search
\* returned
LaterOccurrenceMapped ==
    /\ pc = "widgets" /\ pc' = "widgets"
    /\ total_widgets' = total_widgets + 1
    /\ HasKey(mapped_data, search'.field_name)

OneEntryPerName(d) == \A i, j \in 1..Len(d) : d[i].name = d[j].name => i = j

\* the entry of the name holds the text and all other entries are as before
OverwrittenWith(name, text) ==
    /\ Len(mapped_data') = Len(mapped_data)
    /\ \A i \in 1..Len(mapped_data) :
          /\ mapped_data'[i].name = mapped_data[i].name
          /\ mapped_data'[i].text =
                IF mapped_data[i].name = name THEN text ELSE mapped_data[i].text

\* C16 as stated: when a field name occurs again, the single entry of the name
\* holds the text extracted for the later occurrence.
C16_LaterOccurrenceOverwrites ==
    /\ []OneEntryPerName(mapped_data)
    /\ [][LaterOccurrenceMapped =>
            OverwrittenWith(search'.field_name, search'.cleaned)]_vars

\* C16 amended: when a field name occurs again, the result map keeps a single
\* entry for it; a later occurrence for which a text is found replaces the
\* value with its own text, unmerged, and a later occurrence for which nothing
\* is found leaves the earlier value in place.
C16_LaterFoundOccurrenceOverwrites ==
    /\ []OneEntryPerName(mapped_data)
    /\ [][LaterOccurrenceMapped =>
            IF search'.cleaned # <<>>
            THEN OverwrittenWith(search'.field_name, search'.cleaned)
            ELSE mapped_data' = mapped_data]_vars

\* C16 witness: f1 of the first page was recorded first ("42"), before f2;
\* f1 of the second page found "John": the one entry of f1 holds "John"
C16_Witness_Overwritten ==
    /\ pc = "done"
    /\ srcDoc = <<PageValue, PageJohn>>
    /\ tgtDoc = <<<<Widget("f1", WideField)>>,
                  <<Widget("f2", WideField), Widget("f1", SmallField)>>>>
    /\ mapped_data = <<[name |-> "f1", text |-> T_John],
                       [name |-> "f2", text |-> T_42]>>
    /\ RecordedFields(out) = 3

---------------------------------------------------------------------------
(* The page loop in another order                                          *)

AsMap(d) == {<<d[i].name, d[i].text>> : i \in 1..Len(d)}
Keys(d) == {d[i].name : i \in 1..Len(d)}

PagesNaming(name) ==
    {k \in 1..Len(tgtDoc) : \E i \in 1..Len(tgtDoc[k]) : tgtDoc[k][i].field_name = name}

SameOutsideReorderedNames(d, seq) ==
    /\ Keys(d) = Keys(seq)
    /\ Len(d) = Len(seq)
    /\ \A name \in Keys(d) :
          Cardinality(PagesNaming(name)) = 1 => ValueOf(d, name) = ValueOf(seq, name)

---------------------------------------------------------------------------
(* The output as a function of the two documents                           *)

\* the lines of the report, from the documents alone
ReportOf(result) ==
    <<Line("result", Len(result), NamedOnPages(tgtDoc)),
      IF NamedOnPages(tgtDoc) - Len(result) # 0
      THEN Line("missed", NamedOnPages(tgtDoc) - Len(result), 0)
      ELSE Line("perfect", 0, 0)>>

OutputDetermined(result) ==
    /\ output_file = result
    /\ SubSeq(out, Len(out) - 1, Len(out)) = ReportOf(result)

\* the loop goes on in the same page to the next widget, or from the end of a
\* page to the start of the next, and nowhere else
DocumentOrderStep ==
    \/ tgt_page_idx' = tgt_page_idx /\ widget_idx' = widget_idx + 1
    \/ /\ widget_idx > Len(CurrentWidgets)
       /\ tgt_page_idx' = tgt_page_idx + 1 /\ widget_idx' = 1
    \/ /\ tgt_page_idx' = tgt_page_idx /\ widget_idx' = widget_idx
       /\ (pc' = "report" /\ tgt_page_idx = Len(tgtDoc) - 1) \/ Crashed'

\* C18: the output of a run is determined by the two documents: the keys,
\* their order, their values and the counts written are those computed from
\* the documents (and the keyword hits on their first pages) in document
\* order, so two runs on the same pair give the same output; pages and
\* widgets are always processed in document order.
C18_OutputDeterminedByDocuments ==
    /\ [](pc \in {"widgets", "report", "done"} =>
            transform = calculate_transform(anchors).t)
    /\ [](pc = "done" => OutputDetermined(SequentialResult))
    /\ [][pc = "widgets" => DocumentOrderStep]_vars

\* C18 witness: a run over two target pages has written two keys, f1 of the
\* first page before f2 of the second
C18_Witness_TwoKeysInOrder ==
    /\ pc = "done"
    /\ Len(tgtDoc) = 2 /\ tgtDoc[1] = <<Widget("f1", WideField)>>
    /\ Len(output_file) = 2
    /\ output_file[1].name = "f1" /\ output_file[2].name = "f2"
    /\ output_file[1].text # output_file[2].text

---------------------------------------------------------------------------
(* A document that cannot be opened                                        *)

NothingMapped ==
    /\ anchors = <<>> /\ transform = Identity
    /\ total_widgets = 0 /\ mapped_data = <<>>
    /\ ~search.ran /\ ~proj.made
    /\ output_file = NotWritten

\* the caller can tell the failure from a run that mapped: an exception
\* reaches it, or the value returned is not the one a finished run returns
SurfacedToCaller == CallerGets # "None"

\* C19: when a document cannot be opened the run stops before mapping starts:
\* no transform is computed, no field is processed, no output is written, and
\* the failure is surfaced to the caller.
C19_OpenFailureStopsAndSurfaces ==
    pc = "returned" => NothingMapped /\ SurfacedToCaller

---------------------------------------------------------------------------
(* Fields left without a value                                             *)

\* the search of the field returned and nothing was stored for it
LeftUnmapped == search.ran /\ ~search.raised /\ search.cleaned = <<>>

\* C20: a named field is left unmapped only if no word centre lies in a tight
\* or wide window on any of its candidate pages; a text that cleans to
\* nothing (a lone ":") in an earlier attempt does not make the search give
\* up while a later window or page holds text.
C20_UnmappedOnlyIfNothingAnywhere ==
    LeftUnmapped => NoWordOnAnyCandidate

---------------------------------------------------------------------------
(* Reading order of the collected words                                    *)

\* two words are of one row: their tops differ by no more than the row
\* tolerance of words_to_text
SameRow(a, b) == RLe(RAbs(RSub(a.y0, b.y0)), R(5))

\* rows from top to bottom, and in a row from left to right
InReadingOrder(ws) ==
    \A i, j \in 1..Len(ws) :
        i < j => IF SameRow(ws[i], ws[j]) THEN RLe(ws[i].x0, ws[j].x0)
                 ELSE RLt(ws[i].y0, ws[j].y0)

\* C21: whatever the order in which the page delivers them, the words
\* collected for a window are in reading order: words whose tops are within
\* the row tolerance of 5 appear left to right, rows appear top to bottom.
C21_CollectedWordsInReadingOrder ==
    pc = "windows" =>
        \A i \in 1..Len(search.attempts) : InReadingOrder(search.attempts[i].words)

---------------------------------------------------------------------------
(* Which words a window collects                                           *)

\* the window of an attempt, as handed to get_words_in_area
ClipOf(window) ==
    RectAnd(IF window = "tight" THEN tight_clip(proj.src_rect)
            ELSE wide_clip(proj.src_rect), PageRect)

\* twice the centre lies between twice the borders, borders included
CentreInside(w, clip) ==
    /\ RLe(RMul(R(2), clip.x0), RAdd(w.x0, w.x1))
    /\ RLe(RAdd(w.x0, w.x1), RMul(R(2), clip.x1))
    /\ RLe(RMul(R(2), clip.y0), RAdd(w.y0, w.y1))
    /\ RLe(RAdd(w.y0, w.y1), RMul(R(2), clip.y1))

AsSet(ws) == {ws[i] : i \in 1..Len(ws)}

CollectsByCentre(page, a) ==
    /\ AsSet(a.words) = {w \in AsSet(page) : CentreInside(w, ClipOf(a.window))}
    /\ Len(a.words) =
          Cardinality({i \in 1..Len(page) : CentreInside(page[i], ClipOf(a.window))})

---------------------------------------------------------------------------
(* The text made of a list of words                                        *)

\* the texts of the words in their order, one space between neighbours
RECURSIVE SpacedTexts(_)
SpacedTexts(ws) ==
    IF Len(ws) = 1 THEN ws[1].text
    ELSE ws[1].text \o <<" ">> \o SpacedTexts(Tail(ws))

NoNewline(text) == \A i \in 1..Len(text) : text[i] # "\n"

\* C23: for a non-empty list of words, words_to_text returns their texts in
\* the given order with exactly one space between neighbours and no newline,
\* however their tops group them into lines.
C23_TextIsWordsJoinedBySpaces ==
    pc = "windows" =>
        /\ search.text = SpacedTexts(srcDoc[1])
        /\ NoNewline(search.text)
        /\ \A i \in 1..Len(search.attempts) :
              search.attempts[i].words # <<>> =>
                  search.attempts[i].text = SpacedTexts(search.attempts[i].words)

\* C23 witness: a word of a lower row delivered before two words of the row
\* above: two lines, one string "42 John Smith"
C23_Witness_TwoLinesOneString ==
    /\ pc = "windows"
    /\ srcDoc[1] = <<W_next_row, W_John, W_Smith>>
    /\ search.text = T_42 \o <<" ">> \o T_John \o <<" ">> \o T_Smith

---------------------------------------------------------------------------
(* The tight window inside the wide window                                 *)

\* rectangle a lies in rectangle b, side by side
Within(a, b) ==
    /\ RLe(b.x0, a.x0) /\ RLe(b.y0, a.y0)
    /\ RLe(a.x1, b.x1) /\ RLe(a.y1, b.y1)

\* C24: for every projected rectangle the tight window lies in the wide
\* window, before and after the two are cut to the page, and every word the
\* tight window collects is collected by the wide window too.
C24_TightWindowInsideWide ==
    pc = "windows" =>
        /\ Within(tight_clip(proj.src_rect), wide_clip(proj.src_rect))
        /\ Within(ClipOf("tight"), ClipOf("wide"))
        /\ AsSet(search.attempts[1].words) \subseteq AsSet(search.attempts[2].words)

\* C24 witness: the tight window collects "John", the wide window "John" and
\* a word further right
C24_Witness_WideCollectsMore ==
    /\ pc = "windows"
    /\ srcDoc[1] = <<W_John, W_reaching_in>>
    /\ search.attempts[1].words = <<W_John>>
    /\ search.attempts[2].words = <<W_John, W_reaching_in>>

---------------------------------------------------------------------------
(* The per-page counts and the total                                       *)

\* the counts of the "Page k: Mapped n fields." lines, in the order printed
PageCounts ==
    LET ls == SelectSeq(out, LAMBDA l : l.kind = "page mapped")
    IN  [i \in 1..Len(ls) |-> ls[i].b]

RECURSIVE SumOf(_)
SumOf(ns) == IF ns = <<>> THEN 0 ELSE Head(ns) + SumOf(Tail(ns))

\* the n of "Result: Mapped n of m fields."
ResultLine == CHOOSE l \in {out[i] : i \in 1..Len(out)} : l.kind = "result"

\* C25: the per-page mapped counts printed during a run add up to the mapped
\* total printed at its end, also when a field name occurs on more than one
\* page.
C25_PageCountsSumToTotal ==
    pc = "done" => SumOf(PageCounts) = ResultLine.a

---------------------------------------------------------------------------
(* The result map over the run                                             *)

\* the step stored a non-empty text, just extracted, under the name
ReplacedByExtraction(name, text) ==
    /\ text # <<>>
    /\ search'.ran /\ search'.field_name = name /\ search'.cleaned = text
    /\ total_widgets' = total_widgets + 1

\* every entry stays, at its place, with a value that is not empty, and the
\* value changes only by a new extraction for that name
EntriesKept ==
    /\ Len(mapped_data') >= Len(mapped_data)
    /\ \A i \in 1..Len(mapped_data) :
          /\ mapped_data'[i].name = mapped_data[i].name
          /\ mapped_data'[i].text # <<>>
          /\ mapped_data'[i].text # mapped_data[i].text =>
                ReplacedByExtraction(mapped_data[i].name, mapped_data'[i].text)

\* C26: the result map only grows during a run: a name that has a value is
\* never removed and its value never becomes empty; a later field of the same
\* name that yields no text leaves the value in place, and only a later
\* non-empty extraction replaces it.
C26_ResultMapOnlyGrows == [][EntriesKept]_vars

\* C26 witness: the second f1 found only a colon, and f1 still holds the "42"
\* of the first
C26_Witness_EarlierValueKept ==
    /\ search.ran /\ search.field_name = "f1" /\ search.same_page_idx = 1
    /\ search.text = T_colon /\ search.cleaned = <<>>
    /\ tgtDoc[2] = <<Widget("f1", WideField)>>
    /\ mapped_data = <<[name |-> "f1", text |-> T_42]>>

---------------------------------------------------------------------------
(* The values of the result map                                            *)

CleanValue(text) == text # <<>> /\ text[1] # " " /\ text[Len(text)] # " "

\* C27: in every state of a run every value of the result map is a non-empty
\* string without whitespace at its start or end; an empty string is never
\* stored, a field without a value has no key.
C27_StoredValuesNonEmptyAndStripped ==
    /\ \A i \in 1..Len(mapped_data) : CleanValue(mapped_data[i].text)
    /\ (search.ran /\ search.cleaned = <<>> /\ total_widgets = 1) => mapped_data = <<>>

\* C27 witness: the window text ": 42" was stored as "42"
C27_Witness_ColonAndSpaceCut ==
    /\ search.ran
    /\ search.text = <<":", " ">> \o T_42
    /\ Recorded(search.field_name, T_42)

---------------------------------------------------------------------------
(* The transform maps the anchors' mean origin onto the mean origin        *)

SrcX0(m) == [i \in 1..Len(m) |-> m[i].s.x0]
SrcY0(m) == [i \in 1..Len(m) |-> m[i].s.y0]
TgtX0(m) == [i \in 1..Len(m) |-> m[i].t.x0]
TgtY0(m) == [i \in 1..Len(m) |-> m[i].t.y0]

MeanOriginMapped(m, t) ==
    /\ RAdd(RMul(t.sx, RMean(SrcX0(m))), t.dx) = RMean(TgtX0(m))
    /\ RAdd(RMul(t.sy, RMean(SrcY0(m))), t.dy) = RMean(TgtY0(m))

SingleAnchorMappedOnto(m, t) ==
    (Len(m) = 1 /\ WideEnough(m[1]) /\ TallEnough(m[1])) => Forward(m[1].s, t) = m[1].t

\* C28: when at least one anchor is matched on both pages, the forward
\* mapping of the transform sends the mean of the matched source origins to
\* the mean of the matched target origins on each axis; with a single anchor
\* of source width and height > 1 it maps the source anchor rectangle onto the
\* target anchor rectangle.
C28_MeanOriginMapsToMeanOrigin ==
    (anchors # <<>> /\ matched_rects(anchors) # <<>>
       /\ pc # "crashed in calculate_transform") =>
        /\ MeanOriginMapped(matched_rects(anchors), transform)
        /\ SingleAnchorMappedOnto(matched_rects(anchors), transform)

\* C28 witness: three anchors of scales 2, 1 and 2 in x: sx is 5/3 and the
\* offset is not zero
C28_Witness_ThreeAnchors ==
    /\ pc = "widgets"
    /\ Len(matched_rects(anchors)) = 3
    /\ transform.sx = Rat(5, 3) /\ transform.dx # R(0)

---------------------------------------------------------------------------
(* Degenerate anchors and the offsets                                      *)

\* the offset candidate of one anchor under the scale returned
OffsetX(p, t) == RSub(p.t.x0, RMul(p.s.x0, t.sx))
OffsetY(p, t) == RSub(p.t.y0, RMul(p.s.y0, t.sy))

RECURSIVE OffsetXSum(_, _, _)
OffsetXSum(m, t, i) ==
    IF i = 0 THEN R(0) ELSE RAdd(OffsetXSum(m, t, i - 1), OffsetX(m[i], t))

RECURSIVE OffsetYSum(_, _, _)
OffsetYSum(m, t, i) ==
    IF i = 0 THEN R(0) ELSE RAdd(OffsetYSum(m, t, i - 1), OffsetY(m[i], t))

OffsetsOverAllAnchors(m, t) ==
    /\ t.dx = RDiv(OffsetXSum(m, t, Len(m)), R(Len(m)))
    /\ t.dy = RDiv(OffsetYSum(m, t, Len(m)), R(Len(m)))

\* C29: a matched anchor of source width (height) <= 1 is left out of the sx
\* (sy) average and still gives an offset candidate, taken from its origins
\* with the averaged scale; dx and dy are the means of the candidates of all
\* matched anchors.
C29_DegenerateAnchorStillGivesOffset ==
    (anchors # <<>> /\ matched_rects(anchors) # <<>>
       /\ pc # "crashed in calculate_transform") =>
        /\ ScalesAreMeansOverUsable(matched_rects(anchors))
        /\ OffsetsOverAllAnchors(matched_rects(anchors), transform)

\* C29 witness: the first of two matched anchors has source width 1; sx = 2
\* comes from the second alone, and dx is not the second's candidate alone
C29_Witness_DegenerateCounts ==
    /\ pc = "widgets"
    /\ Len(matched_rects(anchors)) = 2
    /\ ~WideEnough(matched_rects(anchors)[1]) /\ WideEnough(matched_rects(anchors)[2])
    /\ transform.sx = R(2)
    /\ transform.dx # OffsetX(matched_rects(anchors)[2], transform)

---------------------------------------------------------------------------
(* Termination and the number of attempts                                  *)

Ended == pc \in {"done", "returned"} \/ Crashed

AttemptsOn(p, window) ==
    Cardinality({i \in 1..Len(search.attempts) :
                    search.attempts[i].page = p /\ search.attempts[i].window = window})

AttemptsBounded ==
    /\ Len(search.pages) <= 5
    /\ Len(search.attempts) <= 10
    /\ \A i \in 1..Len(search.pages) :
          /\ AttemptsOn(search.pages[i], "tight") <= 1
          /\ AttemptsOn(search.pages[i], "wide") <= 1

\* the steps the run has still to take: the widgets and the end of the
\* current page, the later pages, the report
RECURSIVE StepsFromPage(_)
StepsFromPage(k) ==
    IF k >= Len(tgtDoc) THEN 0 ELSE Len(tgtDoc[k + 1]) + 1 + StepsFromPage(k + 1)

StepsLeft ==
    IF pc = "open" THEN StepsFromPage(0) + 3
    ELSE IF pc = "calibrate" THEN StepsFromPage(0) + 2
    ELSE IF pc = "widgets"
    THEN (Len(CurrentWidgets) + 1 - widget_idx) + StepsFromPage(tgt_page_idx + 1) + 2
    ELSE IF pc = "report" THEN 1
    ELSE 0

\* the run can take its next step: one of the steps outside the widget body
\* is enabled, or the current widget is a named one, which MapWidget takes
\* whatever its projection and its search give
CanStep ==
    \/ ENABLED (OpenDocs \/ Calibrate \/ SkipUnnamed \/ EndPage \/ Report)
    \/ /\ pc = "widgets"
       /\ widget_idx <= Len(CurrentWidgets)
       /\ CurrentWidget.field_name # ""

\* C30: every run ends: each step takes the run closer to its end by a
\* measure fixed by the page and widget counts of the target, which is zero
\* exactly when the run has ended, and a run that has not ended can take its
\* next step; the search of one field makes at most 10 window attempts: at
\* most 5 candidate pages, each tried with at most one tight and one wide
\* window.
C30_RunEndsAttemptsBounded ==
    /\ [](search.ran => AttemptsBounded)
    /\ [](StepsLeft >= 0 /\ (Ended <=> StepsLeft = 0) /\ (~Ended => CanStep))
    /\ [][StepsLeft' < StepsLeft]_vars

\* C30 witness: a field of the second target page went through five blank
\* source pages, ten windows, and the run has finished
C30_Witness_TenAttempts ==
    /\ pc = "done"
    /\ search.ran /\ search.pages = <<1, 2, 3, 4, 0>>
    /\ Len(search.attempts) = 10
    /\ search.text = <<>>

====
